---- MODULE Spec2Model ----
(***************************************************************************)
(* chosi (main.go): customizeImage and the functions it calls, as a        *)
(* sequential state machine.  The host (loop device, mount table, files)   *)
(* is part of the state; every external command may succeed or fail.       *)
(***************************************************************************)
EXTENDS Integers, Sequences, FiniteSets, TLC

VARIABLES
    pc,            \* position in customizeImage / mountImageAndModifyFilesystem
    goarch,        \* runtime.GOARCH
    isRoot,        \* syscall.Geteuid() == 0
    configPath,    \* the -config flag: "" or a path
    config,        \* *Config returned by ParseConfig
    err,           \* customizeImage's local variable err: "nil" or "error"
    code,          \* result of mountImageAndModifyFilesystem
    exitCode,      \* result of customizeImage (os.Exit argument)
    defers,        \* deferred calls of mountImageAndModifyFilesystem, oldest first
    loopAttached,  \* host: the loop device is bound to the raw image
    mounted,       \* host: partitions of the loop device mounted under mountPath
    mountDir,      \* host: the scratch directory mountPath exists
    guestFileOpen, \* host: a descriptor on a file of the guest is still open
    stagingDir,    \* host: the package staging directory exists in the guest
    qcow2Exists,   \* host: ubuntu.qcow2.img exists
    rawExists,     \* host: ubuntu.img exists
    custErr,       \* the error customizeMount returned: "nil" or "error"
    reported,      \* messages written with logger.Error / slog.Error, in order
    trace,         \* history: the operations of the run, in order
    guestOps       \* history: the commands of the customizeMount call in
                   \* progress, in order; dropped once its result is taken

vars == <<pc, goarch, isRoot, configPath, config, err, code, exitCode, defers,
          loopAttached, mounted, mountDir, guestFileOpen, stagingDir,
          qcow2Exists, rawExists, custErr, reported, trace, guestOps>>

----------------------------------------------------------------------------
(* Bounds *)

MaxPkgs == 2

(* Program constants *)

NoCode == 0 - 1

FormatRAW == "raw"

FormatQCOW2 == "qcow2"

FormatVHD == "vhd"

Partitions == {"root", "boot", "esp"}

Archs == {"amd64", "arm64"}

KernelVersions == {"", "5.15.0-76-generic"}

OutputFormats == {"", FormatRAW, FormatVHD, FormatQCOW2}

PkgLists == { [i \in 1..n |-> i] : n \in 0..MaxPkgs }

Config ==
    [CloudInitConfigPath : {"", "cloud-init.yaml"},
     ImageURL            : {"", "url"},
     ExtraPackages       : PkgLists,
     RemovePackages      : PkgLists,
     KernelVersion       : KernelVersions,
     OutputFormat        : OutputFormats]

ZeroConfig ==
    [CloudInitConfigPath |-> "", ImageURL |-> "", ExtraPackages |-> <<>>,
     RemovePackages |-> <<>>, KernelVersion |-> "", OutputFormat |-> ""]

----------------------------------------------------------------------------
(* History helpers *)

Ev(op, ok, arg) == [op |-> op, ok |-> ok, arg |-> arg, mounted |-> mounted]

Log(evs) == trace' = trace \o evs

Guest(evs) == guestOps' = guestOps \o evs

----------------------------------------------------------------------------
Init ==
    /\ pc = "checkRoot"
    /\ goarch \in Archs
    /\ isRoot \in BOOLEAN
    /\ configPath \in {"", "config.json"}
    /\ config = ZeroConfig
    /\ err = "nil"
    /\ code = NoCode
    /\ exitCode = NoCode
    /\ defers = <<>>
    /\ loopAttached = FALSE
    /\ mounted = {}
    /\ mountDir = FALSE
    /\ guestFileOpen = FALSE
    /\ stagingDir = FALSE
    /\ qcow2Exists \in BOOLEAN
    /\ rawExists = FALSE
    /\ custErr = "nil"
    /\ reported = <<>>
    /\ trace = <<>>
    /\ guestOps = <<>>

Exit(n) ==
    /\ pc' = "done"
    /\ exitCode' = n

----------------------------------------------------------------------------
(* customizeImage, lines 441-472: the gate checks, download, decode to raw *)

\* lines 445-448
CheckRoot ==
    /\ pc = "checkRoot"
    /\ IF ~isRoot
       THEN /\ reported' = Append(reported, "this program needs to run as root")
            /\ Exit(1)
       ELSE /\ pc' = "checkFlag"
            /\ UNCHANGED <<reported, exitCode>>
    /\ UNCHANGED <<goarch, isRoot, configPath, config, err, code, defers,
                   loopAttached, mounted, mountDir, guestFileOpen, stagingDir, qcow2Exists,
                   rawExists, trace,
                   custErr, guestOps>>

\* lines 450-454
CheckFlag ==
    /\ pc = "checkFlag"
    /\ IF configPath = ""
       THEN Exit(2)
       ELSE /\ pc' = "parseConfig"
            /\ UNCHANGED exitCode
    /\ UNCHANGED <<goarch, isRoot, configPath, config, err, code, defers,
                   loopAttached, mounted, mountDir, guestFileOpen, stagingDir, qcow2Exists,
                   rawExists, reported, trace,
                   custErr, guestOps>>

\* cloudinit_config_path not required
ParseConfigErr_NoCloudInitCheck(openOk, decodeOk, c) ==
    IF ~openOk THEN "error"
    ELSE IF ~decodeOk THEN "error"
    ELSE IF c.ImageURL = "" THEN "error"
    ELSE "nil"

\* ParseConfig, lines 312-333: the error it returns
ParseConfigErr(openOk, decodeOk, c) ==
    IF ~openOk THEN "error"
    ELSE IF ~decodeOk THEN "error"
    ELSE IF c.ImageURL = "" THEN "error"
    ELSE IF c.CloudInitConfigPath = "" THEN "error"
    ELSE "nil"

\* lines 456-460
ParseConfig ==
    /\ pc = "parseConfig"
    /\ \E openOk \in BOOLEAN, decodeOk \in BOOLEAN, c \in Config :
          /\ err' = ParseConfigErr(openOk, decodeOk, c)
          /\ config' = IF openOk /\ decodeOk THEN c ELSE ZeroConfig
          /\ IF err' # "nil"
             THEN /\ reported' = Append(reported, "failed to parse config file")
                  /\ Exit(3)
             ELSE /\ pc' = "download"
                  /\ UNCHANGED <<reported, exitCode>>
    /\ UNCHANGED <<goarch, isRoot, configPath, code, defers, loopAttached,
                   mounted, mountDir, guestFileOpen, stagingDir, qcow2Exists, rawExists,
                   trace,
                   custErr, guestOps>>

\* the calls of downloadFile, lines 21-48; one of them, or none, fails
DownloadSteps == {"none", "get", "status", "create", "copy"}

\* the image fetched on every run
NeedsDownload_Always(exists) == TRUE

\* line 377: os.Stat reports that the file does not exist
NeedsDownload(exists) == ~exists

\* downloadImageIfNeeded, lines 376-389, and its call, lines 462-466; the file
\* exists once downloadFile has created it, also when the copy then fails
DownloadImageIfNeeded ==
    /\ pc = "download"
    /\ IF NeedsDownload(qcow2Exists)
       THEN \E failing \in DownloadSteps :
            LET ok == failing = "none"
            IN
              /\ Log(<<Ev("download", ok, 0)>>)
              /\ qcow2Exists' = (failing \in {"none", "copy"})
              /\ err' = IF ok THEN "nil" ELSE "error"
              /\ IF ok
                 THEN /\ pc' = "convertRaw"
                      /\ UNCHANGED <<reported, exitCode>>
                 ELSE /\ reported' = Append(reported, "failed to download image")
                      /\ Exit(4)
       ELSE /\ err' = "nil"
            /\ pc' = "convertRaw"
            /\ UNCHANGED <<qcow2Exists, reported, exitCode, trace>>
    /\ UNCHANGED <<goarch, isRoot, configPath, config, code, defers,
                   loopAttached, mounted, mountDir, guestFileOpen, stagingDir, rawExists,
                   custErr, guestOps>>

Mebibyte == 1048576

ImageSizes == {0, 1, Mebibyte, Mebibyte + 1}

\* line 405
RoundedSize(size) == ((size \div Mebibyte) + 1) * Mebibyte

\* the input removed whenever removeInput is set, also after a failed step, and
\* a failure of the removal not returned
ConvertImageToFormat_RemoveAlways(outputFormat, removeInput, size, failing) ==
    LET conv == IF outputFormat = FormatVHD THEN "convertVpc" ELSE "convertRaw"
        ok == outputFormat \in {"raw", "vhd"} /\ failing \notin {"stat", "resize", "convert"}
        steps == IF outputFormat \in {"raw", "vhd"}
                 THEN << <<conv, failing # "convert", 0>> >> ELSE <<>>
    IN  IF removeInput
        THEN [err |-> IF ok THEN "nil" ELSE "error",
              steps |-> Append(steps, <<"removeInput", failing # "remove", 0>>),
              produced |-> ok, inputRemoved |-> failing # "remove"]
        ELSE [err |-> IF ok THEN "nil" ELSE "error", steps |-> steps,
              produced |-> ok, inputRemoved |-> FALSE]

\* the commands of convertImageToFormat; one of them, or none, fails
ConvertSteps == {"none", "stat", "resize", "convert", "remove"}

\* convertImageToFormat, lines 397-439: the commands it runs and what it returns
\* when the command `failing` fails.  steps are <<op, ok, arg>> triples; the
\* arg of stat is the size read, the arg of resize the size asked for.
ConvertImageToFormat(outputFormat, removeInput, size, failing) ==
    LET body ==
          IF outputFormat = FormatVHD
          THEN IF failing = "stat"
               THEN [err |-> "error", steps |-> << <<"stat", FALSE, 0>> >>]
               ELSE IF failing = "resize"
               THEN [err |-> "error",
                     steps |-> << <<"stat", TRUE, size>>,
                                  <<"resize", FALSE, RoundedSize(size)>> >>]
               ELSE [err |-> IF failing # "convert" THEN "nil" ELSE "error",
                     steps |-> << <<"stat", TRUE, size>>,
                                  <<"resize", TRUE, RoundedSize(size)>>,
                                  <<"convertVpc", failing # "convert", 0>> >>]
          ELSE IF outputFormat = FormatRAW
          THEN [err |-> IF failing # "convert" THEN "nil" ELSE "error",
                steps |-> << <<"convertRaw", failing # "convert", 0>> >>]
          ELSE [err |-> "error", steps |-> <<>>]
    IN  IF body.err = "nil" /\ removeInput
        THEN [err |-> IF failing # "remove" THEN "nil" ELSE "error",
              steps |-> Append(body.steps, <<"removeInput", failing # "remove", 0>>),
              produced |-> TRUE,
              inputRemoved |-> failing # "remove"]
        ELSE [err |-> body.err, steps |-> body.steps,
              produced |-> body.err = "nil", inputRemoved |-> FALSE]

StepEvents(steps) == [i \in 1..Len(steps) |-> Ev(steps[i][1], steps[i][2], steps[i][3])]

\* lines 468-472
ConvertToRaw ==
    /\ pc = "convertRaw"
    /\ \E failing \in ConvertSteps :
         LET r == ConvertImageToFormat(FormatRAW, FALSE, 0, failing)
         IN  /\ err' = r.err
             /\ Log(StepEvents(r.steps))
             /\ rawExists' = r.produced
             /\ qcow2Exists' = (qcow2Exists /\ ~r.inputRemoved)
             /\ IF r.err # "nil"
                THEN /\ reported' = Append(reported, "failed to convert to raw image failed")
                     /\ Exit(5)
                ELSE /\ pc' = "attach"
                     /\ UNCHANGED <<reported, exitCode>>
    /\ UNCHANGED <<goarch, isRoot, configPath, config, code, defers,
                   loopAttached, mounted, mountDir, guestFileOpen, stagingDir,
                   custErr, guestOps>>

----------------------------------------------------------------------------
(* mountImageAndModifyFilesystem, lines 335-374 *)

\* deferred calls run in the order they were registered
NextDeferred_Fifo(d) == d[1]

\* Go runs deferred calls last-registered first
NextDeferred(d) == d[Len(d)]

\* a deferred call that fails stops the unwinding
RemainingDefers_StopOnFailure(d, ok) == IF ok THEN SubSeq(d, 1, Len(d) - 1) ELSE <<>>

\* the deferred calls that still run after one has run: its result is discarded
RemainingDefers(d, ok) == SubSeq(d, 1, Len(d) - 1)

\* lines 341-348
AttachLoopDevice ==
    /\ pc = "attach"
    /\ \E ok \in BOOLEAN :
          /\ Log(<<Ev("attach", ok, 0)>>)
          /\ loopAttached' = ok
          /\ IF ok
             THEN /\ defers' = Append(defers, "detach")
                  /\ pc' = "mkdirTemp"
                  /\ UNCHANGED <<reported, code>>
             ELSE /\ reported' = Append(reported, "failed to attach loop device")
                  /\ code' = 6
                  /\ pc' = "unwind"
                  /\ UNCHANGED defers
    /\ UNCHANGED <<goarch, isRoot, configPath, config, err, exitCode, mounted,
                   mountDir, guestFileOpen, stagingDir, qcow2Exists, rawExists,
                   custErr, guestOps>>

\* lines 350-356
MkdirTemp ==
    /\ pc = "mkdirTemp"
    /\ \E ok \in BOOLEAN :
          /\ Log(<<Ev("mkdirTemp", ok, 0)>>)
          /\ mountDir' = ok
          /\ IF ok
             THEN /\ defers' = Append(defers, "removeAll")
                  /\ pc' = "mount"
                  /\ UNCHANGED <<reported, code>>
             ELSE /\ reported' = Append(reported, "failed to create mount directory")
                  /\ code' = 7
                  /\ pc' = "unwind"
                  /\ UNCHANGED defers
    /\ UNCHANGED <<goarch, isRoot, configPath, config, err, exitCode,
                   loopAttached, mounted, guestFileOpen, stagingDir, qcow2Exists, rawExists,
                   custErr, guestOps>>

\* the boot partition mounted on every architecture
MountAttempts_BootAlways(arch, failing) ==
    IF failing = "root" THEN <<"root">>
    ELSE IF failing = "boot" THEN <<"root", "boot">>
    ELSE <<"root", "boot", "esp">>

\* mountLoopDevice, lines 67-95: the partitions it tries to mount, in order,
\* when the mount of `failing` fails ("none": no mount fails)
MountAttempts(arch, failing) ==
    IF failing = "root" THEN <<"root">>
    ELSE IF arch # "arm64"
         THEN IF failing = "boot" THEN <<"root", "boot">>
              ELSE <<"root", "boot", "esp">>
         ELSE <<"root", "esp">>

Attempted(arch, failing) ==
    { MountAttempts(arch, failing)[i] : i \in 1..Len(MountAttempts(arch, failing)) }

\* mountLoopDevice returns nil iff every attempted mount succeeded
MountLoopDeviceOk(arch, failing) == failing \notin Attempted(arch, failing)

MountedBy(arch, failing) == Attempted(arch, failing) \ {failing}

MountEvents(arch, failing) ==
    [i \in 1..Len(MountAttempts(arch, failing)) |->
        [op |-> "mount", ok |-> MountAttempts(arch, failing)[i] # failing,
         arg |-> MountAttempts(arch, failing)[i],
         mounted |-> { MountAttempts(arch, failing)[j] : j \in 1..(i-1) }]]

\* lines 358-364
MountLoopDevice ==
    /\ pc = "mount"
    /\ \E failing \in Partitions \cup {"none"} :
          /\ Log(MountEvents(goarch, failing))
          /\ mounted' = MountedBy(goarch, failing)
          /\ IF MountLoopDeviceOk(goarch, failing)
             THEN /\ defers' = Append(defers, "unmount")
                  /\ pc' = "cloudInit"
                  /\ UNCHANGED <<reported, code>>
             ELSE /\ reported' = Append(reported, "failed to mount loop device")
                  /\ code' = 8
                  /\ pc' = "unwind"
                  /\ UNCHANGED defers
    /\ UNCHANGED <<goarch, isRoot, configPath, config, err, exitCode,
                   loopAttached, mountDir, guestFileOpen, stagingDir, qcow2Exists, rawExists,
                   custErr, guestOps>>

----------------------------------------------------------------------------
(* customizeMount, lines 263-291, and the stages it calls *)

\* lines 283-290
AfterInstall(cfg) == IF cfg.KernelVersion # "" THEN "setupBoot" ELSE "customized"

\* installExtraPackages called whatever the list holds
AfterRemove_Always(cfg) == "installPkgs"

\* lines 276-281
AfterRemove(cfg) == IF Len(cfg.ExtraPackages) > 0 THEN "installPkgs" ELSE AfterInstall(cfg)

\* lines 269-274
AfterCloudInit(cfg) == IF Len(cfg.RemovePackages) > 0 THEN "removePkgs" ELSE AfterRemove(cfg)

\* boot regeneration placed before the package stages
customizeMountNext_BootFirst(stage, ok, cfg) ==
    IF ~ok THEN "failed"
    ELSE IF stage = "cloudInit"
         THEN (IF cfg.KernelVersion # "" THEN "setupBoot" ELSE AfterCloudInit(cfg))
    ELSE IF stage = "setupBoot" THEN AfterCloudInit(cfg)
    ELSE IF stage = "removePkgs" THEN AfterRemove(cfg)
    ELSE "customized"

\* where customizeMount goes once a stage has returned: "failed" and
\* "customized" are its two returns
customizeMountNext(stage, ok, cfg) ==
    IF ~ok THEN "failed"
    ELSE IF stage = "cloudInit" THEN AfterCloudInit(cfg)
    ELSE IF stage = "removePkgs" THEN AfterRemove(cfg)
    ELSE IF stage = "installPkgs" THEN AfterInstall(cfg)
    ELSE "customized"

\* customizeMount goes on to `next`: the next stage, or one of its returns
StageDone(next) ==
    IF next = "failed"
    THEN /\ custErr' = "error"
         /\ pc' = "customizeReturn"
    ELSE IF next = "customized"
    THEN /\ custErr' = "nil"
         /\ pc' = "customizeReturn"
    ELSE /\ pc' = next
         /\ UNCHANGED custErr

\* configureCloudInit, lines 125-148: one of its calls, or none, fails; the
\* result of io.Copy is not looked at, and a failed open returns with the
\* created file still open
ConfigureCloudInit ==
    /\ pc = "cloudInit"
    /\ \E failing \in {"none", "create", "open", "copy", "close"} :
         LET ok == failing \in {"none", "copy"}
             copied == IF failing \notin {"create", "open"}
                       THEN <<Ev("copyCloudInit", failing # "copy", 0)>> ELSE <<>>
         IN  /\ guestFileOpen' = (failing = "open")
             /\ Guest(copied)
             /\ Log(<<Ev("cloudInit", ok, 0)>>)
             /\ StageDone(customizeMountNext("cloudInit", ok, config))
    /\ UNCHANGED <<goarch, isRoot, configPath, config, err, code, exitCode,
                   defers, loopAttached, mounted, mountDir, stagingDir,
                   qcow2Exists, rawExists, reported>>

\* RemovePackages, lines 251-261: failAt = 0 when every purge succeeds
PurgeEvents(pkgs, failAt) ==
    [i \in 1..(IF failAt = 0 THEN Len(pkgs) ELSE failAt) |-> Ev("purge", i # failAt, pkgs[i])]

RemovePackages ==
    /\ pc = "removePkgs"
    /\ \E failAt \in 0..Len(config.RemovePackages) :
          /\ Guest(PurgeEvents(config.RemovePackages, failAt))
          /\ Log(<<Ev("removePkgs", failAt = 0, 0)>>)
          /\ StageDone(customizeMountNext("removePkgs", failAt = 0, config))
    /\ UNCHANGED <<goarch, isRoot, configPath, config, err, code, exitCode,
                   defers, loopAttached, mounted, mountDir, guestFileOpen,
                   stagingDir, qcow2Exists, rawExists, reported>>

\* installExtraPackages, lines 159-173: the loop.  failAt = 0 when no command
\* fails; otherwise package failAt fails, at cp (failCp) or at dpkg --unpack
InstallEvents(pkgs, failAt, failCp) ==
    LET n == IF failAt = 0 THEN Len(pkgs) ELSE failAt
        one(i) == IF i = failAt /\ failCp
                  THEN <<Ev("cp", FALSE, pkgs[i])>>
                  ELSE <<Ev("cp", TRUE, pkgs[i]), Ev("unpack", i # failAt, pkgs[i])>>
        upto[i \in 0..n] == IF i = 0 THEN <<>> ELSE upto[i-1] \o one(i)
    IN  upto[n]

\* the removal of the staging directory is also kept in the history of the run
IsStagingRemoval(e) == e.op = "removeStaging"

\* the staging directory removed only when every package was unpacked
InstallRun_RemoveOnSuccess(pkgs, mkdirOk, failAt, failCp, removeOk) ==
    IF ~mkdirOk
    THEN [ops |-> <<Ev("mkdirStaging", FALSE, 0)>>, ok |-> FALSE, created |-> FALSE,
          left |-> FALSE]
    ELSE IF failAt # 0
    THEN [ops |-> <<Ev("mkdirStaging", TRUE, 0)>> \o InstallEvents(pkgs, failAt, failCp),
          ok |-> FALSE, created |-> TRUE, left |-> TRUE]
    ELSE [ops |-> <<Ev("mkdirStaging", TRUE, 0)>> \o InstallEvents(pkgs, failAt, failCp)
                    \o <<Ev("removeStaging", removeOk, 0)>>,
          ok |-> TRUE, created |-> TRUE, left |-> ~removeOk]

\* installExtraPackages, lines 150-176: the commands it runs, its result, and
\* whether it created the staging directory and left it behind.  The removal
\* is deferred (line 157) once the directory is made, and its result dropped.
InstallRun(pkgs, mkdirOk, failAt, failCp, removeOk) ==
    IF ~mkdirOk
    THEN [ops |-> <<Ev("mkdirStaging", FALSE, 0)>>, ok |-> FALSE, created |-> FALSE,
          left |-> FALSE]
    ELSE [ops |-> <<Ev("mkdirStaging", TRUE, 0)>> \o InstallEvents(pkgs, failAt, failCp)
                    \o <<Ev("removeStaging", removeOk, 0)>>,
          ok |-> failAt = 0, created |-> TRUE, left |-> ~removeOk]

\* installExtraPackages, lines 150-176, called at lines 276-281
InstallExtraPackages ==
    /\ pc = "installPkgs"
    /\ \E mkdirOk \in BOOLEAN, failAt \in 0..Len(config.ExtraPackages),
          failCp \in BOOLEAN, removeOk \in BOOLEAN :
         LET r == InstallRun(config.ExtraPackages, mkdirOk, failAt, failCp, removeOk)
         IN  /\ Guest(r.ops)
             /\ stagingDir' = r.left
             /\ Log(SelectSeq(r.ops, IsStagingRemoval) \o <<Ev("installPkgs", r.ok, 0)>>)
             /\ StageDone(customizeMountNext("installPkgs", r.ok, config))
    /\ UNCHANGED <<goarch, isRoot, configPath, config, err, code, exitCode,
                   defers, loopAttached, mounted, mountDir, guestFileOpen,
                   qcow2Exists, rawExists, reported>>

\* the prefix added on every architecture
GrubPrefix_Always(arch) == "boot/"

\* configureGrub, lines 184-187
GrubPrefix(arch) == IF arch = "arm64" THEN "boot/" ELSE ""

\* setupBoot, lines 236-239
Cmdline(arch) ==
    IF arch = "arm64"
    THEN <<"root=LABEL=cloudimg-rootfs", "ro">>
    ELSE <<"root=LABEL=cloudimg-rootfs", "ro", "console=tty1", "console=ttyS0">>

\* lines 189-197 and 240-241: the values substituted into the template, each
\* path as the strings concatenated to form it
GrubConfig(arch, kernelVersion) ==
    [Kernel  |-> <<GrubPrefix(arch), "vmlinuz-", kernelVersion>>,
     Initrd  |-> <<GrubPrefix(arch), "initrd.img-", kernelVersion>>,
     Cmdline |-> Cmdline(arch)]

\* setupBoot, lines 230-249, with buildInitrd and configureGrub
SetupBoot ==
    /\ pc = "setupBoot"
    /\ \E failing \in {"none", "initrd", "parse", "create", "write"} :
         LET ok == failing = "none"
             grub == IF failing \in {"none", "write"}
                     THEN <<Ev("grub", ok, GrubConfig(goarch, config.KernelVersion))>>
                     ELSE <<>>
         IN  /\ Guest(<<Ev("initrd", failing # "initrd", config.KernelVersion)>> \o grub)
             /\ Log(<<Ev("setupBoot", ok, 0)>>)
             /\ StageDone(customizeMountNext("setupBoot", ok, config))
    /\ UNCHANGED <<goarch, isRoot, configPath, config, err, code, exitCode,
                   defers, loopAttached, mounted, mountDir, guestFileOpen,
                   stagingDir, qcow2Exists, rawExists, reported>>

\* lines 366-373: mountImageAndModifyFilesystem takes customizeMount's result
CustomizeReturn ==
    /\ pc = "customizeReturn"
    /\ IF custErr # "nil"
       THEN /\ reported' = Append(reported, "failed to modify image")
            /\ code' = 9
       ELSE /\ code' = 0
            /\ UNCHANGED reported
    /\ pc' = "unwind"
    /\ guestOps' = <<>>
    /\ UNCHANGED <<goarch, isRoot, configPath, config, err, exitCode, defers,
                   loopAttached, mounted, mountDir, guestFileOpen, stagingDir,
                   qcow2Exists, rawExists, custErr, trace>>

----------
(* The deferred calls of mountImageAndModifyFilesystem, run when it returns *)

Unwinding == pc = "unwind" /\ defers # <<>>

\* umount -R unmounts the innermost mount first and stops at the first failure
UnmountOrder(m) ==
    LET all == <<"esp", "boot", "root">>
    IN  SelectSeq(all, LAMBDA p : p \in m)

\* what umount -R can leave mounted: nothing (success), or everything from the
\* first mount point that was busy on
UnmountLeaves(m) ==
    { { UnmountOrder(m)[j] : j \in k..Len(UnmountOrder(m)) } : k \in 1..(Len(UnmountOrder(m)) + 1) }

\* line 363 (deferred), unmountLoopDevice, lines 98-109
UnmountLoopDevice ==
    /\ Unwinding
    /\ NextDeferred(defers) = "unmount"
    /\ \E left \in UnmountLeaves(mounted) :
          /\ guestFileOpen => "root" \in left
          /\ Log(<<Ev("unmount", left = {}, 0)>>)
          /\ mounted' = left
          /\ defers' = RemainingDefers(defers, left = {})
    /\ UNCHANGED <<pc, goarch, isRoot, configPath, config, err, code, exitCode,
                   loopAttached, mountDir, guestFileOpen, stagingDir,
                   qcow2Exists, rawExists, reported,
                   custErr, guestOps>>

\* line 355 (deferred): os.RemoveAll(mountPath); a mount point cannot be removed
RemoveAllMountPath ==
    /\ Unwinding
    /\ NextDeferred(defers) = "removeAll"
    /\ \E ok \in BOOLEAN :
          /\ mounted # {} => ~ok
          /\ Log(<<Ev("removeAll", ok, 0)>>)
          /\ mountDir' = ~ok
          /\ defers' = RemainingDefers(defers, ok)
    /\ UNCHANGED <<pc, goarch, isRoot, configPath, config, err, code, exitCode,
                   loopAttached, mounted, guestFileOpen, stagingDir,
                   qcow2Exists, rawExists, reported,
                   custErr, guestOps>>

\* line 346 (deferred), detachLoopDevice, lines 112-123; the device stays bound
\* while one of its partitions is mounted
DetachLoopDevice ==
    /\ Unwinding
    /\ NextDeferred(defers) = "detach"
    /\ \E ok \in BOOLEAN :
          /\ Log(<<Ev("detach", ok, 0)>>)
          /\ loopAttached' = (mounted # {} \/ ~ok)
          /\ defers' = RemainingDefers(defers, ok)
    /\ UNCHANGED <<pc, goarch, isRoot, configPath, config, err, code, exitCode,
                   mounted, mountDir, guestFileOpen, stagingDir, qcow2Exists,
                   rawExists, reported,
                   custErr, guestOps>>

----------------------------------------------------------------------------
(* customizeImage, lines 474-491 *)

\* lines 474-479 and 490: mountImageAndModifyFilesystem has returned `code`
CheckErr ==
    /\ pc = "unwind"
    /\ defers = <<>>
    /\ IF err # "nil"
       THEN Exit(code)
       ELSE IF config.OutputFormat # ""
       THEN /\ pc' = "reencode"
            /\ UNCHANGED exitCode
       ELSE Exit(0)
    /\ UNCHANGED <<goarch, isRoot, configPath, config, err, code, defers,
                   loopAttached, mounted, mountDir, guestFileOpen, stagingDir,
                   qcow2Exists, rawExists, custErr, reported, trace, guestOps,
                   custErr, guestOps>>

\* lines 480-488
Reencode ==
    /\ pc = "reencode"
    /\ \E size \in ImageSizes, failing \in ConvertSteps :
         LET r == ConvertImageToFormat(config.OutputFormat, TRUE, size, failing)
         IN  /\ err' = r.err
             /\ Log(<<Ev("reencode", r.err = "nil", 0)>> \o StepEvents(r.steps))
             /\ rawExists' = (rawExists /\ ~r.inputRemoved)
             /\ IF r.err # "nil"
                THEN /\ reported' = Append(reported, "failed to modify image")
                     /\ Exit(9)
                ELSE /\ Exit(0)
                     /\ UNCHANGED reported
    /\ UNCHANGED <<goarch, isRoot, configPath, config, code, defers,
                   loopAttached, mounted, mountDir, guestFileOpen, stagingDir,
                   qcow2Exists,
                   custErr, guestOps>>

----------------------------------------------------------------------------
Next ==
    \/ CheckRoot
    \/ CheckFlag
    \/ ParseConfig
    \/ DownloadImageIfNeeded
    \/ ConvertToRaw
    \/ AttachLoopDevice
    \/ MkdirTemp
    \/ MountLoopDevice
    \/ ConfigureCloudInit
    \/ RemovePackages
    \/ InstallExtraPackages
    \/ SetupBoot
    \/ CustomizeReturn
    \/ UnmountLoopDevice
    \/ RemoveAllMountPath
    \/ DetachLoopDevice
    \/ CheckErr
    \/ Reencode

Spec == Init /\ [][Next]_vars

----------------------------------------------------------------------------
(* Reading the history *)

Events(op) == { i \in DOMAIN trace : trace[i].op = op }

Failed(op) == \E i \in Events(op) : ~trace[i].ok

Succeeded(op) == \E i \in Events(op) : trace[i].ok

Stages == {"cloudInit", "removePkgs", "installPkgs", "setupBoot"}

StageRank(op) ==
    IF op = "cloudInit" THEN 1
    ELSE IF op = "removePkgs" THEN 2
    ELSE IF op = "installPkgs" THEN 3
    ELSE 4

IsStage(e) == e.op \in Stages

StageSeq == SelectSeq(trace, IsStage)

Releases == {"unmount", "removeAll", "detach"}

IsRelease(e) == e.op \in Releases

\* the release calls made so far, in the order they were made
ReleaseOps == [i \in DOMAIN SelectSeq(trace, IsRelease) |-> SelectSeq(trace, IsRelease)[i].op]

\* mountLoopDevice returned nil: its last mount, the ESP, succeeded
MountSucceeded == \E i \in Events("mount") : trace[i].arg = "esp" /\ trace[i].ok

\* the releases of the acquisitions that succeeded, latest acquisition first
ReleasesOwed ==
    (IF MountSucceeded THEN <<"unmount">> ELSE <<>>)
    \o (IF Succeeded("mkdirTemp") THEN <<"removeAll">> ELSE <<>>)
    \o (IF Succeeded("attach") THEN <<"detach">> ELSE <<>>)

\* mountImageAndModifyFilesystem has returned (its deferred calls have run)
Returned == code # NoCode /\ defers = <<>>

\* the outcome of the stage that failed inside mountImageAndModifyFilesystem,
\* 0 when none failed
FailedKind ==
    IF Failed("attach") THEN 6
    ELSE IF Failed("mkdirTemp") THEN 7
    ELSE IF Failed("mount") THEN 8
    ELSE IF \E s \in Stages : Failed(s) THEN 9
    ELSE 0

\* a mount failed after an earlier partition had been mounted
PartialMountFailure ==
    \E i \in Events("mount") : ~trace[i].ok /\ trace[i].mounted # {}

----------------------------------------------------------------------------
(* Claims *)

\* C1: when attachLoopDevice succeeded, by the time
\* mountImageAndModifyFilesystem returns the loop device has been detached
\* exactly once, and that detach found no partition of the device mounted.
C1_DetachedOnceNothingMounted ==
    (Returned /\ Succeeded("attach")) =>
        /\ Cardinality(Events("detach")) = 1
        /\ \A i \in Events("detach") : trace[i].mounted = {}

\* C2: when mountLoopDevice fails after at least one partition was mounted,
\* nothing is mounted under the scratch directory at the end of the run.
C2_PartialMountUnwound ==
    (Returned /\ PartialMountFailure) => mounted = {}

\* C3: the run's outcome is the outcome of the stage that failed inside
\* mountImageAndModifyFilesystem (6, 7, 8 or 9), and it is zero only when
\* every stage succeeded.
C3_OutcomeIsFailureKind ==
    (pc = "done" /\ code # NoCode) =>
        /\ FailedKind # 0 => exitCode = FailedKind
        /\ exitCode = 0 => FailedKind = 0

\* C4: the re-encode runs only when an output format was requested and attach,
\* scratch-directory creation, mount and customization all succeeded; after a
\* failure the raw image is not deleted.
C4_NoReencodeAfterFailure ==
    /\ Events("reencode") # {} => (config.OutputFormat # "" /\ FailedKind = 0)
    /\ (code # NoCode /\ FailedKind # 0) => rawExists

\* C5: the releases fire in reverse order of acquisition: at every moment the
\* release calls made so far are the first ones of unmount, scratch-directory
\* removal, detach, restricted to the acquisitions that succeeded.
C5_ReverseOrderRelease ==
    /\ Len(ReleaseOps) <= Len(ReleasesOwed)
    /\ \A i \in DOMAIN ReleaseOps : ReleaseOps[i] = ReleasesOwed[i]

\* C5 witness: a run that failed at customization has released all three
\* resources, unmount first and detach last.
C5_Witness ==
    /\ Returned
    /\ code = 9
    /\ ReleaseOps = <<"unmount", "removeAll", "detach">>

\* C6: os.RemoveAll(mountPath) is never executed while a partition is mounted
\* under mountPath.
C6_RemoveAllNothingMounted ==
    \A i \in Events("removeAll") : trace[i].mounted = {}

\* C7: detachLoopDevice is never invoked while a partition of the loop device
\* is mounted.
C7_DetachNothingMounted ==
    \A i \in Events("detach") : trace[i].mounted = {}

\* C8: when every stage succeeded and the recursive unmount fails, the run
\* does not end with outcome zero and the unmount failure is reported.
C8_UnmountFailureSurfaced ==
    (pc = "done" /\ code # NoCode /\ FailedKind = 0 /\ Failed("unmount")) =>
        /\ exitCode # 0
        /\ \E i \in DOMAIN reported : reported[i] = "failed to unmount loop device"

\* C9: when mountImageAndModifyFilesystem returns, every release owed has been
\* attempted exactly once, whether or not an earlier release failed, and the
\* value returned is the outcome of the stage that failed, whatever the
\* releases did.
C9_UnwindUnconditional ==
    Returned =>
        /\ \A r \in Releases :
              Cardinality(Events(r)) =
                 (IF \E i \in DOMAIN ReleasesOwed : ReleasesOwed[i] = r THEN 1 ELSE 0)
        /\ code = FailedKind

\* C9 witness: customization failed, the unmount failed, and the removal of the
\* scratch directory and the detach were still attempted.
C9_Witness ==
    /\ Returned
    /\ code = 9
    /\ Failed("unmount")
    /\ Events("removeAll") # {}
    /\ Events("detach") # {}

\* C10: the stages of customizeMount run in the order configuration injection,
\* package removal, package installation, boot regeneration; configuration
\* injection is the first; a stage starts only after every earlier stage that
\* ran returned success.
C10_StageOrder ==
    /\ \A i, j \in DOMAIN StageSeq :
          i < j => StageRank(StageSeq[i].op) < StageRank(StageSeq[j].op)
    /\ \A i \in DOMAIN StageSeq : i < Len(StageSeq) => StageSeq[i].ok
    /\ StageSeq # <<>> => StageSeq[1].op = "cloudInit"
    /\ pc \in Stages \ {"cloudInit"} =>
          /\ StageSeq # <<>>
          /\ StageSeq[Len(StageSeq)].ok
          /\ StageRank(StageSeq[Len(StageSeq)].op) < StageRank(pc)
    /\ pc = "customizeReturn" => (custErr = "nil" <=> StageSeq[Len(StageSeq)].ok)

\* C10 witness: customizeMount returns success after running all four stages.
C10_Witness ==
    /\ pc = "customizeReturn"
    /\ custErr = "nil"
    /\ Len(StageSeq) = 4

\* the commands customizeMount has run on the guest are of the kinds in `ops`
GuestOpsIn(ops) == \A i \in DOMAIN guestOps : guestOps[i].op \in ops

\* the configuration sets nothing but the boot-time configuration path
OnlyCloudInitConfig ==
    /\ config.RemovePackages = <<>>
    /\ config.ExtraPackages = <<>>
    /\ config.KernelVersion = ""

\* C11: package removal runs iff the removal list is non-empty, package
\* installation iff the install list is non-empty, boot regeneration iff the
\* kernel version is non-empty (a stage that runs is one the configuration
\* asks for, and a customizeMount that returns success has run every stage
\* asked for); with only the boot-time configuration path set the one command
\* run on the guest is the copy of the configuration, and no staging directory
\* is created.
C11_StageSelection ==
    /\ Events("removePkgs") # {} => Len(config.RemovePackages) > 0
    /\ Events("installPkgs") # {} => Len(config.ExtraPackages) > 0
    /\ Events("setupBoot") # {} => config.KernelVersion # ""
    /\ (pc = "customizeReturn" /\ custErr = "nil") =>
          /\ Len(config.RemovePackages) > 0 => Events("removePkgs") # {}
          /\ Len(config.ExtraPackages) > 0 => Events("installPkgs") # {}
          /\ config.KernelVersion # "" => Events("setupBoot") # {}
    /\ OnlyCloudInitConfig =>
          /\ GuestOpsIn({"copyCloudInit"})
          /\ Len(guestOps) <= 1
          /\ ~stagingDir
          /\ \A i \in DOMAIN StageSeq : StageSeq[i].op = "cloudInit"
    /\ (OnlyCloudInitConfig /\ pc = "customizeReturn" /\ custErr = "nil") =>
          Len(guestOps) = 1

\* C11 witness: with only the configuration path set, customizeMount returns
\* success having run the configuration injection alone.
C11_Witness ==
    /\ OnlyCloudInitConfig
    /\ pc = "customizeReturn"
    /\ custErr = "nil"
    /\ Len(StageSeq) = 1
    /\ Len(guestOps) = 1

\* the commands of installExtraPackages that handle one package
PackageOps == {"cp", "unpack"}

\* once the copy or the unpacking of a package has failed, no package is
\* copied or unpacked after it, boot regeneration does not run, and
\* customizeMount returns the failure
InstallStopsAtFirstFailure ==
    /\ \A i \in DOMAIN guestOps :
          (guestOps[i].op \in PackageOps /\ ~guestOps[i].ok) =>
             /\ \A j \in DOMAIN guestOps :
                   j > i => guestOps[j].op \notin PackageOps \cup {"initrd", "grub"}
             /\ \A j \in DOMAIN guestOps :
                   guestOps[j].op \in PackageOps => guestOps[j].arg <= guestOps[i].arg
             /\ Failed("installPkgs")
             /\ pc = "customizeReturn" /\ custErr = "error"
    /\ Failed("installPkgs") => Events("setupBoot") = {}
    /\ (Failed("installPkgs") /\ code # NoCode) => code = 9

\* C12: if the staging or unpacking of the k-th artifact fails, no later
\* artifact is copied or unpacked, boot regeneration does not run,
\* customizeMount returns failure, and the run's outcome is the customization
\* failure (9).
C12_InstallFailureIsOutcome ==
    /\ InstallStopsAtFirstFailure
    /\ (pc = "done" /\ Failed("installPkgs")) => exitCode = 9

GuestEvents(op) == { i \in DOMAIN guestOps : guestOps[i].op = op }

\* whenever installExtraPackages has created the staging directory, it has
\* attempted its removal once, after the last package command and before it
\* returned (nothing of boot regeneration precedes the removal)
StagingRemovalAttempted ==
    (pc # "installPkgs" /\ \E i \in GuestEvents("mkdirStaging") : guestOps[i].ok) =>
        /\ Cardinality(GuestEvents("removeStaging")) = 1
        /\ \A r \in GuestEvents("removeStaging") :
              /\ \A j \in DOMAIN guestOps : guestOps[j].op \in PackageOps => j < r
              /\ \A j \in DOMAIN guestOps : guestOps[j].op \in {"initrd", "grub"} => j > r

\* boot regeneration, or the unmount, is the next thing to run
BootOrUnmountNext ==
    \/ pc = "setupBoot"
    \/ (Unwinding /\ NextDeferred(defers) = "unmount")

CeilMiB(size) == ((size + Mebibyte - 1) \div Mebibyte) * Mebibyte

\* C14: for the fixed-size VHD output the size passed to the resize step is
\* ceil(sizeBytes / MiB) * MiB, so an input that is already a whole number of
\* mebibytes is resized to its own size.
C14_ResizeIsCeil ==
    \A i \in Events("resize") :
        /\ i > 1
        /\ trace[i-1].op = "stat"
        /\ trace[i].arg = CeilMiB(trace[i-1].arg)

\* C15: each failure kind has its own outcome: a failure of the final
\* re-encode ends the run with the format-conversion outcome (5), as a failure
\* of the conversion to raw does, and the customization outcome (9) is given
\* only when a customization stage failed.
C15_DistinctOutcomes ==
    pc = "done" =>
        /\ Failed("convertRaw") /\ Events("reencode") = {} => exitCode = 5
        /\ Failed("reencode") => exitCode = 5
        /\ exitCode = 9 => \E st \in Stages : Failed(st)

\* the commands of a conversion, the removal of the input apart
ConversionOps == {"stat", "resize", "convertVpc", "convertRaw"}

\* the events of the re-encode call (lines 482-483, removeInput = true): those
\* that follow its "reencode" mark
InReencode(ops) ==
    { i \in DOMAIN trace : trace[i].op \in ops /\ \E r \in Events("reencode") : r < i }

\* every conversion sub-step of the re-encode call succeeded (the output
\* format is one of those implemented, and its convert command ran and
\* succeeded)
ReencodeStepsOk ==
    /\ config.OutputFormat \in {FormatRAW, FormatVHD}
    /\ \A i \in InReencode(ConversionOps) : trace[i].ok
    /\ InReencode({"convertVpc", "convertRaw"}) # {}

\* C16: convertImageToFormat removes its input iff removeInput is set and
\* every conversion sub-step succeeded: the call at line 468 (removeInput
\* false) never removes the qcow2 image; the call at line 483 (removeInput
\* true) attempts the removal iff every sub-step succeeded, the raw image is
\* gone iff that removal succeeded, and a failed removal makes the call
\* return an error.
C16_RemoveInputOnSuccessOnly ==
    /\ \A i \in Events("removeInput") : i \in InReencode({"removeInput"})
    /\ (\E i \in DOMAIN trace : trace[i].op = "convertRaw"
           /\ i \notin InReencode({"convertRaw"})) => qcow2Exists
    /\ Events("reencode") # {} =>
          /\ Cardinality(Events("reencode")) = 1
          /\ Events("removeInput") # {} <=> ReencodeStepsOk
          /\ Cardinality(Events("removeInput")) <= 1
          /\ ~rawExists <=> Succeeded("removeInput")
          /\ Failed("removeInput") => err = "error"
          /\ err = "nil" <=> (ReencodeStepsOk /\ ~Failed("removeInput"))
          /\ \A r \in Events("reencode") : trace[r].ok <=> err = "nil"

\* C16 witness: the convert command of the re-encode failed and the raw image
\* is still there.
C16_Witness ==
    /\ pc = "done"
    /\ \E i \in InReencode({"convertVpc"}) : ~trace[i].ok
    /\ Events("removeInput") = {}
    /\ rawExists

\* C17: when the copy of the boot-time configuration into the guest file
\* fails, configureCloudInit returns an error (the configuration-injection
\* stage fails, and customizeMount with it).
C17_CopyFailureFails ==
    (\E i \in GuestEvents("copyCloudInit") : ~guestOps[i].ok) =>
        /\ Failed("cloudInit")
        /\ pc = "customizeReturn" /\ custErr = "error"

\* the three gate checks of customizeImage pass
GatePassed ==
    /\ isRoot
    /\ configPath # ""
    /\ config.ImageURL # ""
    /\ config.CloudInitConfigPath # ""

\* nothing was downloaded, converted, attached, mounted or changed
NothingDone ==
    /\ trace = <<>>
    /\ guestOps = <<>>
    /\ defers = <<>>
    /\ ~loopAttached
    /\ mounted = {}
    /\ ~mountDir
    /\ ~rawExists
    /\ code = NoCode

\* C18: a download, conversion, attach, mount or guest mutation happens only
\* when the process runs as root, a config path was given and the parsed
\* configuration has image_url and cloudinit_config_path; otherwise the run
\* ends with outcome 1, 2 or 3 respectively and nothing was acquired.
C18_GateBeforeImageOperation ==
    /\ ~NothingDone => GatePassed
    /\ pc \notin {"checkRoot", "checkFlag", "parseConfig", "done"} => GatePassed
    /\ (pc = "done" /\ ~GatePassed) =>
          /\ NothingDone
          /\ exitCode = (IF ~isRoot THEN 1 ELSE IF configPath = "" THEN 2 ELSE 3)
    /\ (pc = "done" /\ GatePassed) => exitCode \notin {1, 2, 3}

\* C18 witness: a configuration without cloudinit_config_path ends the run with
\* outcome 3, nothing done.
C18_Witness ==
    /\ pc = "done"
    /\ exitCode = 3
    /\ config.ImageURL # ""
    /\ config.CloudInitConfigPath = ""
    /\ NothingDone

\* C19: when the base image file is already on disk the download is not
\* invoked; when it is not, the download is invoked once, with no retry, and
\* its failure ends the run with outcome 4 before any conversion or attach.
C19_DownloadOnlyIfAbsent ==
    /\ [](Events("download") \subseteq {1})
    /\ []((pc = "done" /\ exitCode = 4) =>
            (Failed("download") /\ Len(trace) = 1 /\ ~rawExists /\ ~loopAttached))
    /\ [][pc = "download" =>
            IF qcow2Exists
            THEN trace' = trace /\ pc' = "convertRaw"
            ELSE /\ Len(trace') = 1
                 /\ trace'[1].op = "download"
                 /\ IF trace'[1].ok
                    THEN pc' = "convertRaw" /\ qcow2Exists'
                    ELSE pc' = "done" /\ exitCode' = 4]_vars

\* C19 witness: the image was on disk and the run has gone on to the
\* conversion without a download.
C19_Witness ==
    /\ pc = "attach"
    /\ qcow2Exists
    /\ Events("download") = {}
    /\ Succeeded("convertRaw")

IsMount(e) == e.op = "mount"

\* the mount commands of the run, in the order they were issued
MountSeq == SelectSeq(trace, IsMount)

\* the order mountLoopDevice is to follow on the architecture of the run
MountOrder == IF goarch = "arm64" THEN <<"root", "esp">> ELSE <<"root", "boot", "esp">>

\* C20: mountLoopDevice mounts root, then boot on architectures other than
\* arm64, then the ESP; each mount is attempted only after every earlier one
\* succeeded, nothing is attempted after a failure, and on arm64 the boot
\* partition is never mounted.
C20_MountDependencyOrder ==
    /\ Len(MountSeq) <= Len(MountOrder)
    /\ \A i \in 1..Len(MountSeq) :
          /\ MountSeq[i].arg = MountOrder[i]
          /\ MountSeq[i].mounted = { MountOrder[j] : j \in 1..(i-1) }
          /\ i < Len(MountSeq) => MountSeq[i].ok
    /\ (MountSeq # <<>> /\ MountSeq[Len(MountSeq)].ok) => Len(MountSeq) = Len(MountOrder)
    /\ goarch = "arm64" => /\ "boot" \notin mounted
                           /\ \A i \in 1..Len(MountSeq) : MountSeq[i].arg # "boot"
    /\ pc = "cloudInit" => mounted = { MountOrder[j] : j \in 1..Len(MountOrder) }
    /\ (pc = "unwind" /\ code = 8) =>
          /\ ~MountSeq[Len(MountSeq)].ok
          /\ mounted = { MountOrder[j] : j \in 1..(Len(MountSeq)-1) }

\* C20 witness: on arm64 the root and the ESP were mounted, the boot partition
\* was not, and the run went on to the customization.
C20_Witness ==
    /\ goarch = "arm64"
    /\ pc = "cloudInit"
    /\ Len(MountSeq) = 2
    /\ mounted = {"root", "esp"}

\* the words of a command line
Words(cmdline) == { cmdline[i] : i \in DOMAIN cmdline }

\* C21: the kernel and initrd paths given to the boot-loader template are
\* vmlinuz-<version> and initrd.img-<version>, prefixed with boot/ exactly
\* when no separate boot partition is mounted (arm64), and exactly then the
\* command line omits console=ttyS0; with a boot partition mounted the paths
\* are unprefixed and the command line contains console=ttyS0.
C21_GrubConsistentWithLayout ==
    \A i \in GuestEvents("grub") :
        LET e      == guestOps[i]
            noBoot == "boot" \notin e.mounted
            prefix == IF noBoot THEN "boot/" ELSE ""
        IN  /\ config.KernelVersion # ""
            /\ {"root", "esp"} \subseteq e.mounted
            /\ noBoot <=> goarch = "arm64"
            /\ e.arg.Kernel = <<prefix, "vmlinuz-", config.KernelVersion>>
            /\ e.arg.Initrd = <<prefix, "initrd.img-", config.KernelVersion>>
            /\ ("console=ttyS0" \in Words(e.arg.Cmdline)) <=> ~noBoot

\* C21 witness: on arm64, with no boot partition mounted, the boot-loader
\* configuration was rendered.
C21_Witness ==
    /\ goarch = "arm64"
    /\ mounted = {"root", "esp"}
    /\ \E i \in GuestEvents("grub") :
          /\ guestOps[i].ok
          /\ guestOps[i].arg.Kernel[1] = "boot/"

\* the deferred unmount is the next call to run, or has run
UnmountDue == (Unwinding /\ NextDeferred(defers) = "unmount") \/ Events("unmount") # {}

\* C22: on every return path of configureCloudInit the file it created in the
\* guest has been closed, so no descriptor on the guest filesystem is open
\* when the unmount runs.
C22_GuestFileClosedAtUnmount ==
    /\ Events("cloudInit") # {} => ~guestFileOpen
    /\ UnmountDue => ~guestFileOpen

====
